---- MODULE Spec2Model ----
(***************************************************************************)
(* GeoAgents-FloodWarning MVP1: flood-risk classification of river gauges  *)
(* from the latest river stage (USGS) and a 72-hour rainfall forecast      *)
(* (NWS).                                                                  *)
(*                                                                         *)
(* Conventions of the model                                                *)
(*  - Python None is the empty tuple <<>>.                                 *)
(*  - A number is an exact rational <<n, d>> with d > 0 in lowest terms;   *)
(*    Python computes in binary floating point, the model in exact         *)
(*    arithmetic (the two agree on every comparison between quotients of   *)
(*    small integers, because IEEE division is correctly rounded).         *)
(*  - A Python dict is a function whose DOMAIN is its key set; d[k] with   *)
(*    k missing raises KeyError, d.get(k) yields None.                     *)
(*  - A raised exception is the record [error |-> <kind>].                 *)
(*  - An instant is a number of hours since an epoch, a timedelta a number  *)
(*    of hours.                                                            *)
(***************************************************************************)
EXTENDS Integers, Sequences, FiniteSets, TLC

VARIABLES
    \* ---- one call of classify_gauge (risk_logic.py) ----
    thresholds,       \* the thresholds document
    stage_ft,         \* argument stage_ft
    flood_stage_ft,   \* argument flood_stage_ft
    rain_mm_72h,      \* argument rain_mm_72h
    assessment,       \* what the call returned (or raised); None before the call
    \* ---- one call of compute_72h_rain_mm (nws_fetch.py) ----
    window_start,     \* datetime.now()
    entry,            \* the qpf entry of the current loop iteration
    n_seen,           \* how many qpf entries the loop has consumed
    total_mm,         \* the running total
    added,            \* what the last iteration added to total_mm
    prorated_sum,     \* history: sum of value * overlap / duration over the positive-duration periods seen
    overlap_value_sum,\* history: sum of the mm values of the periods seen that overlap the window
    \* ---- one call of fetch_usgs_gauge_data (usgs_fetch.py) ----
    response,         \* how the stage source answered the request
    series,           \* the timeSeries block of the current loop iteration
    n_series,         \* how many timeSeries blocks the loop has consumed
    prev_reading,     \* stage_ft, discharge_cfs, latest_ts before the iteration
    reading,          \* stage_ft, discharge_cfs, latest_ts after it
    observation,      \* what the call returned (or raised); None before that
    \* ---- one run of the pipeline (run_mvp1.py) ----
    pc,               \* position of run()
    files,            \* the state of the two configuration files
    gauges,           \* the gauge list of the gauge configuration file
    cursor,           \* index of the next gauge of the loop in progress
    usgs_data,        \* results of fetch_all_gauges
    rainfall,         \* results of fetch_all_gauges_forecast
    outcomes,         \* history: per configured gauge, what its two fetches did
    result,           \* the result document of run(), or the error it raised
    \* ---- one forecast of fetch_all_gauges_forecast (nws_fetch.py) ----
    point_answer,     \* what the points endpoint answered
    forecast_answer,  \* what the forecast endpoint answered
    qpf_item,         \* the quantitativePrecipitation value of this iteration
    n_items,          \* how many values the loop has been through
    prev_entries,     \* qpf_entries before the iteration
    qpf_entries,      \* qpf_entries after it
    rain_entry        \* results[gauge_id] of the gauge; None before that

clsVars  == <<thresholds, stage_ft, flood_stage_ft, rain_mm_72h, assessment>>
rainVars == <<window_start, entry, n_seen, total_mm, added, prorated_sum, overlap_value_sum>>
usgsVars == <<response, series, n_series, prev_reading, reading, observation>>
runVars  == <<pc, files, gauges, cursor, usgs_data, rainfall, outcomes, result>>
fcVars   == <<point_answer, forecast_answer, qpf_item, n_items, prev_entries, qpf_entries, rain_entry>>
vars     == <<clsVars, rainVars, usgsVars, runVars, fcVars>>

-----------------------------------------------------------------------------
(* Python values *)

None == <<>>

Raise(kind) == [error |-> kind]

IsRaised(v) == DOMAIN v = {"error"}

HasKey(d, k) == k \in DOMAIN d

Get(d, k) == IF k \in DOMAIN d THEN d[k] ELSE None

-----------------------------------------------------------------------------
(* Exact rational arithmetic standing for Python floats *)

Abs(n) == IF n < 0 THEN -n ELSE n

RECURSIVE GCD(_, _)
GCD(a, b) == IF b = 0 THEN a ELSE GCD(b, a % b)

Frac(n, d) ==
    LET s == IF d < 0 THEN -1 ELSE 1
        g == GCD(Abs(n), Abs(d))
    IN  <<(s * n) \div g, (s * d) \div g>>

Num(n) == <<n, 1>>

RLeq(a, b) == a[1] * b[2] <= b[1] * a[2]

RLt(a, b) == a[1] * b[2] < b[1] * a[2]

RAdd(a, b) == Frac(a[1] * b[2] + b[1] * a[2], a[2] * b[2])

RMul(a, b) == Frac(a[1] * b[1], a[2] * b[2])

RDiv(a, b) == Frac(a[1] * b[2], a[2] * b[1])

RSub(a, b) == Frac(a[1] * b[2] - b[1] * a[2], a[2] * b[2])

RMax(a, b) == IF RLt(a, b) THEN b ELSE a

RMin(a, b) == IF RLt(b, a) THEN b ELSE a

Zero == Num(0)

-----------------------------------------------------------------------------
(* core/risk_logic.py *)

BandKeys == {"low", "medium", "high"}

RAIN_KEY == "rainfall_mm_72h"

STAGE_KEY == "river_stage_ratio"

(* A sub-classifier returns a risk level, or this name when the lookup of a *)
(* band key raised.                                                        *)
KeyError == "KeyError"

(* Mutant: HIGH already at the 'high' cut point (>= for >) *)
_risk_from_rain_HighAtCut(rain_mm, bands) ==
    IF rain_mm = None THEN "UNKNOWN"
    ELSE IF ~HasKey(bands, "medium") THEN KeyError
    ELSE IF RLeq(rain_mm, bands["medium"])
         THEN IF ~HasKey(bands, "low") THEN KeyError
              ELSE IF RLeq(rain_mm, bands["low"]) THEN "LOW" ELSE "MEDIUM"
    ELSE IF ~HasKey(bands, "high") THEN KeyError
    ELSE IF RLeq(bands["high"], rain_mm) THEN "HIGH" ELSE "MEDIUM"

(* Both sub-classifiers spell out the same band rule.  The band keys are   *)
(* looked up lazily, in the order the comparisons need them.               *)
_risk_from_rain(rain_mm, bands) ==
    IF rain_mm = None THEN "UNKNOWN"
    ELSE IF ~HasKey(bands, "medium") THEN KeyError
    ELSE IF RLeq(rain_mm, bands["medium"])
         THEN IF ~HasKey(bands, "low") THEN KeyError
              ELSE IF RLeq(rain_mm, bands["low"]) THEN "LOW" ELSE "MEDIUM"
    ELSE IF ~HasKey(bands, "high") THEN KeyError
    ELSE IF RLt(bands["high"], rain_mm) THEN "HIGH" ELSE "MEDIUM"

(* Mutant: HIGH already at the 'high' cut point (>= for >) *)
_risk_from_stage_HighAtCut(stage, flood_stage, bands) ==
    IF stage = None \/ flood_stage = None \/ flood_stage = Zero THEN "UNKNOWN"
    ELSE LET ratio == RDiv(stage, flood_stage) IN
         IF ~HasKey(bands, "medium") THEN KeyError
         ELSE IF RLeq(ratio, bands["medium"])
              THEN IF ~HasKey(bands, "low") THEN KeyError
                   ELSE IF RLeq(ratio, bands["low"]) THEN "LOW" ELSE "MEDIUM"
         ELSE IF ~HasKey(bands, "high") THEN KeyError
         ELSE IF RLeq(bands["high"], ratio) THEN "HIGH" ELSE "MEDIUM"

_risk_from_stage(stage, flood_stage, bands) ==
    IF stage = None \/ flood_stage = None \/ flood_stage = Zero THEN "UNKNOWN"
    ELSE LET ratio == RDiv(stage, flood_stage) IN
         IF ~HasKey(bands, "medium") THEN KeyError
         ELSE IF RLeq(ratio, bands["medium"])
              THEN IF ~HasKey(bands, "low") THEN KeyError
                   ELSE IF RLeq(ratio, bands["low"]) THEN "LOW" ELSE "MEDIUM"
         ELSE IF ~HasKey(bands, "high") THEN KeyError
         ELSE IF RLt(bands["high"], ratio) THEN "HIGH" ELSE "MEDIUM"

(* Mutant: UNKNOWN listed last in risk_order, so it outranks HIGH *)
rank_UnknownLast(r) ==
    CASE r = "LOW" -> 0
      [] r = "MEDIUM" -> 1
      [] r = "HIGH" -> 2
      [] OTHER -> 3

(* rank(r): the index of r in ["LOW", "MEDIUM", "HIGH"], -1 for anything else *)
rank(r) ==
    CASE r = "LOW" -> 0
      [] r = "MEDIUM" -> 1
      [] r = "HIGH" -> 2
      [] OTHER -> -1

(* max(a, b, key=rank): the first of the arguments whose key is largest *)
MaxByRank(a, b) == IF rank(b) > rank(a) THEN b ELSE a

stage_ratio(stage, flood_stage) ==
    IF stage # None /\ flood_stage # None /\ flood_stage # Zero
    THEN RDiv(stage, flood_stage)
    ELSE None

classify_gauge(gauge_id, stage, flood_stage, rain_mm, thr) ==
    IF ~HasKey(thr, RAIN_KEY) \/ ~HasKey(thr, STAGE_KEY) THEN Raise(KeyError)
    ELSE LET rain_risk  == _risk_from_rain(rain_mm, thr[RAIN_KEY])
             stage_risk == _risk_from_stage(stage, flood_stage, thr[STAGE_KEY])
         IN  IF rain_risk = KeyError \/ stage_risk = KeyError THEN Raise(KeyError)
             ELSE [gauge_id    |-> gauge_id,
                   risk        |-> MaxByRank(rain_risk, stage_risk),
                   rain_risk   |-> rain_risk,
                   stage_risk  |-> stage_risk,
                   stage_ratio |-> stage_ratio(stage, flood_stage),
                   inputs      |-> [stage_ft       |-> stage,
                                    flood_stage_ft |-> flood_stage,
                                    rain_mm_72h    |-> rain_mm]]


-----------------------------------------------------------------------------
(* Idle values of the variable groups a specification does not exercise *)

IdleCls ==
    /\ thresholds = None /\ stage_ft = None /\ flood_stage_ft = None
    /\ rain_mm_72h = None /\ assessment = None

IdleRain ==
    /\ window_start = Zero /\ entry = None /\ n_seen = 0 /\ total_mm = Zero
    /\ added = Zero /\ prorated_sum = Zero /\ overlap_value_sum = Zero

IdleUsgs ==
    /\ response = "idle" /\ series = None /\ n_series = 0
    /\ prev_reading = None /\ reading = None /\ observation = None

IdleRun ==
    /\ pc = "idle" /\ files = None /\ gauges = <<>> /\ cursor = 0 /\ usgs_data = None
    /\ rainfall = None /\ outcomes = <<>> /\ result = None

IdleFc ==
    /\ point_answer = "idle" /\ forecast_answer = "idle" /\ qpf_item = None /\ n_items = 0
    /\ prev_entries = <<>> /\ qpf_entries = <<>> /\ rain_entry = None

-----------------------------------------------------------------------------
(* SpecClassify: calls of classify_gauge on bounded inputs *)

MaxRain == 4

MaxStage == 3

MaxFlood == 2

RainInputs == {None} \cup {Num(n) : n \in 0..MaxRain}

StageInputs == {None} \cup {Num(n) : n \in 0..MaxStage}

FloodInputs == {None} \cup {Num(n) : n \in 0..MaxFlood}

(* Cut points on offer: rainfall in mm, stage as a ratio to flood stage *)
RainCuts == {Num(1), Num(2), Num(3)}

StageCuts == {Frac(1, 2), Num(1), Frac(3, 2)}

(* Every band dict over the cut points, complete or with keys missing *)
BandDicts(cuts) == UNION {[K -> cuts] : K \in SUBSET BandKeys}

ThresholdDocs ==
    UNION {{[k \in D |-> IF k = RAIN_KEY THEN r ELSE s] :
                r \in BandDicts(RainCuts), s \in BandDicts(StageCuts)} :
           D \in SUBSET {RAIN_KEY, STAGE_KEY}}

Complete(thr) ==
    /\ DOMAIN thr = {RAIN_KEY, STAGE_KEY}
    /\ DOMAIN thr[RAIN_KEY] = BandKeys
    /\ DOMAIN thr[STAGE_KEY] = BandKeys

InitClassify ==
    /\ thresholds \in ThresholdDocs
    /\ stage_ft = None /\ flood_stage_ft = None /\ rain_mm_72h = None
    /\ assessment = None
    /\ IdleRain /\ IdleUsgs /\ IdleRun /\ IdleFc

ClassifyGauge ==
    \E s \in StageInputs, f \in FloodInputs, r \in RainInputs :
        /\ assessment = None
        /\ stage_ft' = s
        /\ flood_stage_ft' = f
        /\ rain_mm_72h' = r
        /\ assessment' = classify_gauge("g", s, f, r, thresholds)
        /\ UNCHANGED <<thresholds, rainVars, usgsVars, runVars, fcVars>>

NextClassify == ClassifyGauge

SpecClassify == InitClassify /\ [][NextClassify]_vars


-----------------------------------------------------------------------------
(* Claims about classify_gauge, checked under SpecClassify *)

Classified == assessment # None /\ ~IsRaised(assessment)

(* The ordering the claims speak of: UNKNOWN < LOW < MEDIUM < HIGH *)
Severity(r) ==
    CASE r = "UNKNOWN" -> 0
      [] r = "LOW" -> 1
      [] r = "MEDIUM" -> 2
      [] r = "HIGH" -> 3

Ascending(bands) ==
    /\ DOMAIN bands = BandKeys
    /\ RLeq(bands["low"], bands["medium"])
    /\ RLeq(bands["medium"], bands["high"])

(* C1: with complete thresholds, the overall risk of every assessment is   *)
(* the more severe of its rain_risk and stage_risk under UNKNOWN < LOW <   *)
(* MEDIUM < HIGH: it is one of the two, no less severe than either, so an  *)
(* UNKNOWN sub-risk never overrides a known one, and it is UNKNOWN exactly *)
(* when both sub-risks are UNKNOWN.                                        *)
C1_OverallIsMoreSevere ==
    (Classified /\ Complete(thresholds)) =>
        LET a == assessment IN
        /\ a.risk \in {a.rain_risk, a.stage_risk}
        /\ Severity(a.risk) >= Severity(a.rain_risk)
        /\ Severity(a.risk) >= Severity(a.stage_risk)
        /\ (a.risk = "UNKNOWN") <=> (a.rain_risk = "UNKNOWN" /\ a.stage_risk = "UNKNOWN")

C1_Witness ==
    /\ Classified /\ Complete(thresholds)
    /\ assessment.rain_risk = "UNKNOWN"
    /\ assessment.stage_risk = "LOW"
    /\ assessment.risk = "LOW"

(* C2: for every rainfall band triplet with low <= medium <= high and      *)
(* every rain_mm, rain_risk is UNKNOWN when rain_mm is absent, LOW when    *)
(* rain_mm <= low, MEDIUM when low < rain_mm <= medium, MEDIUM when        *)
(* medium < rain_mm <= high, and HIGH only when (and whenever)             *)
(* rain_mm > high.                                                         *)
C2_RainBands ==
    (Classified /\ Ascending(thresholds[RAIN_KEY])) =>
        LET b  == thresholds[RAIN_KEY]
            r  == rain_mm_72h
            rr == assessment.rain_risk
        IN  IF r = None THEN rr = "UNKNOWN"
            ELSE /\ RLeq(r, b["low"]) => rr = "LOW"
                 /\ (RLt(b["low"], r) /\ RLeq(r, b["medium"])) => rr = "MEDIUM"
                 /\ (RLt(b["medium"], r) /\ RLeq(r, b["high"])) => rr = "MEDIUM"
                 /\ (rr = "HIGH") <=> RLt(b["high"], r)

C2_Witness ==
    /\ Classified /\ Ascending(thresholds[RAIN_KEY])
    /\ rain_mm_72h # None
    /\ RLt(thresholds[RAIN_KEY]["medium"], rain_mm_72h)
    /\ rain_mm_72h = thresholds[RAIN_KEY]["high"]
    /\ assessment.rain_risk = "MEDIUM"

(* C3: whenever stage_ft / flood_stage_ft (flood_stage_ft non-zero) is at  *)
(* or above the 'high' cut point of the stage-ratio bands, in particular   *)
(* at ratio 1.0 with high = 1.0, classify_gauge returns stage_risk = HIGH  *)
(* and overall risk = HIGH, whatever the rainfall input.  Stated for the   *)
(* strictly ascending, complete band triplets of the repository's test.    *)
C3_AtOrAboveHighIsHigh ==
    (/\ Classified /\ Complete(thresholds)
     /\ RLt(thresholds[STAGE_KEY]["low"], thresholds[STAGE_KEY]["medium"])
     /\ RLt(thresholds[STAGE_KEY]["medium"], thresholds[STAGE_KEY]["high"])
     /\ stage_ft # None /\ flood_stage_ft # None /\ flood_stage_ft # Zero
     /\ RLeq(thresholds[STAGE_KEY]["high"], RDiv(stage_ft, flood_stage_ft)))
    => (assessment.stage_risk = "HIGH" /\ assessment.risk = "HIGH")

(* C4: stage_risk is UNKNOWN whenever stage_ft is absent, flood_stage_ft   *)
(* is absent or flood_stage_ft is zero; for every other input it is what   *)
(* the rainfall band rule gives for the ratio stage_ft / flood_stage_ft    *)
(* with the stage-ratio bands.                                             *)
C4_StageRuleIsRainRuleOnRatio ==
    Classified =>
        IF stage_ft = None \/ flood_stage_ft = None \/ flood_stage_ft = Zero
        THEN assessment.stage_risk = "UNKNOWN"
        ELSE assessment.stage_risk =
                _risk_from_rain(RDiv(stage_ft, flood_stage_ft), thresholds[STAGE_KEY])

C4_Witness ==
    /\ Classified /\ Complete(thresholds)
    /\ stage_ft # None /\ flood_stage_ft # None /\ flood_stage_ft # Zero
    /\ RDiv(stage_ft, flood_stage_ft) = thresholds[STAGE_KEY]["high"]
    /\ RLt(thresholds[STAGE_KEY]["medium"], thresholds[STAGE_KEY]["high"])
    /\ assessment.stage_risk = "MEDIUM"

(* C7: for every call of classify_gauge, if the thresholds document lacks  *)
(* either band triplet or any of the keys low, medium, high in either      *)
(* triplet, the call fails with an error and returns no assessment.        *)
C7_IncompleteThresholdsFail ==
    (assessment # None /\ ~Complete(thresholds)) => IsRaised(assessment)


-----------------------------------------------------------------------------
(* data_ingestion/nws_fetch.py: compute_72h_rain_mm *)

WINDOW_HOURS == 72

(* Mutant: the whole value of every overlapping period, no pro-rating *)
Contribution_NoProRate(e, now) ==
    IF e.start = None \/ e.duration = None \/ e.value_mm = None THEN Zero
    ELSE LET end           == RAdd(e.start, e.duration)
             window_end    == RAdd(now, Num(WINDOW_HOURS))
             overlap_start == RMax(e.start, now)
             overlap_end   == RMin(end, window_end)
         IN  IF RLeq(overlap_end, overlap_start) THEN Zero
             ELSE IF RLeq(e.duration, Zero) THEN Zero
             ELSE e.value_mm

(* Mutant: no `if overlap_start >= overlap_end: continue` *)
Contribution_NoSkip(e, now) ==
    IF e.start = None \/ e.duration = None \/ e.value_mm = None THEN Zero
    ELSE LET end            == RAdd(e.start, e.duration)
             window_end     == RAdd(now, Num(WINDOW_HOURS))
             overlap_start  == RMax(e.start, now)
             overlap_end    == RMin(end, window_end)
             interval_hours == e.duration
             overlap_hours  == RSub(overlap_end, overlap_start)
         IN  IF RLeq(interval_hours, Zero) THEN Zero
             ELSE RMul(e.value_mm, RDiv(overlap_hours, interval_hours))

(* One iteration of the loop over forecast["qpf"]: what the entry adds to  *)
(* total_mm (zero where the code `continue`s).                             *)
Contribution(e, now) ==
    IF e.start = None \/ e.duration = None \/ e.value_mm = None THEN Zero
    ELSE LET end            == RAdd(e.start, e.duration)
             window_end     == RAdd(now, Num(WINDOW_HOURS))
             overlap_start  == RMax(e.start, now)
             overlap_end    == RMin(end, window_end)
             interval_hours == e.duration
             overlap_hours  == RSub(overlap_end, overlap_start)
         IN  IF RLeq(overlap_end, overlap_start) THEN Zero
             ELSE IF RLeq(interval_hours, Zero) THEN Zero
             ELSE RMul(e.value_mm, RDiv(overlap_hours, interval_hours))

(* compute_72h_rain_mm on a whole qpf list, with datetime.now() = now *)
RECURSIVE compute_72h_rain_mm(_, _)
compute_72h_rain_mm(qpf, now) ==
    IF qpf = <<>> THEN Zero
    ELSE RAdd(compute_72h_rain_mm(SubSeq(qpf, 1, Len(qpf) - 1), now),
              Contribution(qpf[Len(qpf)], now))

-----------------------------------------------------------------------------
(* SpecRain: the loop of compute_72h_rain_mm, one qpf entry per step *)

MaxPeriods == 2

MaxMm == 2

(* datetime.now(): on the hour, or half past *)
NowSet == {Zero, Frac(1, 2)}

(* Period starts: around the start and around the end of the window *)
StartSet ==
    {Num(-1), Zero, Num(1),
     Num(WINDOW_HOURS - 1), Num(WINDOW_HOURS), Num(WINDOW_HOURS + 1)}

(* Durations: negative, zero, half an hour, an hour, longer than the window *)
DurationSet == {Num(-1), Zero, Frac(1, 2), Num(1), Num(WINDOW_HOURS + 2)}

Periods == [start : StartSet, duration : DurationSet, value_mm : {Num(v) : v \in 0..MaxMm}]

(* Entries of forecast["qpf"]: periods, and entries with a field absent *)
QpfEntries ==
    Periods \cup
    {[start |-> None, duration |-> Num(1), value_mm |-> Num(1)],
     [start |-> Zero, duration |-> None, value_mm |-> Num(1)],
     [start |-> Zero, duration |-> Num(1), value_mm |-> None]}

IsPeriod(e) == e.start # None /\ e.duration # None /\ e.value_mm # None

(* The claims' reading of a period: the hours [start, start + duration)    *)
(* shares with the window [now, now + 72 h)                                *)
OverlapHours(e, now) ==
    RMax(Zero, RSub(RMin(RAdd(e.start, e.duration), RAdd(now, Num(WINDOW_HOURS))),
                    RMax(e.start, now)))

ClaimedShare(e, now) ==
    IF IsPeriod(e) /\ RLt(Zero, e.duration)
    THEN RDiv(RMul(e.value_mm, OverlapHours(e, now)), e.duration)
    ELSE Zero

OverlapsWindow(e, now) ==
    IsPeriod(e) /\ RLt(Zero, e.duration) /\ RLt(Zero, OverlapHours(e, now))

InitRain ==
    /\ window_start \in NowSet
    /\ entry = None /\ n_seen = 0 /\ total_mm = Zero /\ added = Zero
    /\ prorated_sum = Zero /\ overlap_value_sum = Zero
    /\ IdleCls /\ IdleUsgs /\ IdleRun /\ IdleFc

AccumulateEntry ==
    \E e \in QpfEntries :
        /\ n_seen < MaxPeriods
        /\ entry' = e
        /\ n_seen' = n_seen + 1
        /\ added' = Contribution(e, window_start)
        /\ total_mm' = RAdd(total_mm, added')
        /\ prorated_sum' = RAdd(prorated_sum, ClaimedShare(e, window_start))
        /\ overlap_value_sum' =
               IF OverlapsWindow(e, window_start)
               THEN RAdd(overlap_value_sum, e.value_mm)
               ELSE overlap_value_sum
        /\ UNCHANGED <<window_start, clsVars, usgsVars, runVars, fcVars>>

NextRain == AccumulateEntry

SpecRain == InitRain /\ [][NextRain]_vars

-----------------------------------------------------------------------------
(* Claims about compute_72h_rain_mm, checked under SpecRain *)

WindowEnd == RAdd(window_start, Num(WINDOW_HOURS))

EntryEnd == RAdd(entry.start, entry.duration)

LastIsPositivePeriod == n_seen > 0 /\ IsPeriod(entry) /\ RLt(Zero, entry.duration)

(* C8: for every collection of forecast periods and every instant 'now',   *)
(* the total is the sum, over the periods of positive duration, of         *)
(* value_mm * (hours of overlap with [now, now + 72 h)) / (duration in     *)
(* hours); a period fully inside the window adds its full value, a period  *)
(* with half of its duration inside adds half its value, and a period      *)
(* entirely outside the window adds zero.                                  *)
C8_TotalIsProRatedSum ==
    /\ total_mm = prorated_sum
    /\ LastIsPositivePeriod =>
          /\ (RLeq(window_start, entry.start) /\ RLeq(EntryEnd, WindowEnd))
                => added = entry.value_mm
          /\ (RMul(Num(2), OverlapHours(entry, window_start)) = entry.duration)
                => added = RDiv(entry.value_mm, Num(2))
          /\ (RLeq(EntryEnd, window_start) \/ RLeq(WindowEnd, entry.start))
                => added = Zero

C8_Witness ==
    /\ n_seen = 2 /\ LastIsPositivePeriod
    /\ RMul(Num(2), OverlapHours(entry, window_start)) = entry.duration
    /\ RLt(Zero, added)
    /\ RLt(added, entry.value_mm)
    /\ RLt(added, total_mm)

(* C9: with non-negative mm values, whatever the starts, durations and     *)
(* order of the periods, the running total is non-negative at every step,  *)
(* each period adds between 0 and its own mm value, the total never        *)
(* exceeds the sum of the mm values of the periods that overlap the        *)
(* window, and periods of zero or negative duration and absent periods add *)
(* zero.                                                                   *)
C9_TotalBoundedAndNonNegative ==
    /\ RLeq(Zero, total_mm)
    /\ RLeq(Zero, added)
    /\ RLeq(total_mm, overlap_value_sum)
    /\ n_seen > 0 =>
          /\ entry.value_mm # None => RLeq(added, entry.value_mm)
          /\ (~IsPeriod(entry) \/ RLeq(entry.duration, Zero)) => added = Zero

C9_Witness ==
    /\ n_seen = 2 /\ IsPeriod(entry)
    /\ RLt(entry.duration, Zero) /\ RLt(Zero, entry.value_mm)
    /\ added = Zero
    /\ RLt(Zero, total_mm)
    /\ RLt(total_mm, overlap_value_sum)


-----------------------------------------------------------------------------
(* data_ingestion/usgs_fetch.py: fetch_usgs_gauge_data *)

STAGE_CODE == "00065"

DISCHARGE_CODE == "00060"

(* stage_ft = None, discharge_cfs = None, latest_ts = None *)
NoReading == [stage_ft |-> None, discharge_cfs |-> None, latest_ts |-> None]

(* A dateTime that is present but empty, the text '' *)
EmptyText == <<"">>

(* `timestamp or latest_ts`: the truth value of a decides, and both None   *)
(* and the empty text are false                                            *)
OrElse(a, b) == IF a # None /\ a # EmptyText THEN a ELSE b

(* Mutant: the first sample of the block, entries[0] for entries[-1] *)
SeriesStep_FirstSample(r, sr) ==
    IF sr.samples = <<>> THEN r
    ELSE LET latest_entry == sr.samples[1] IN
         IF latest_entry.value = None THEN r
         ELSE IF sr.code = STAGE_CODE
              THEN [r EXCEPT !.stage_ft = latest_entry.value,
                             !.latest_ts = OrElse(latest_entry.dateTime, r.latest_ts)]
         ELSE IF sr.code = DISCHARGE_CODE
              THEN [r EXCEPT !.discharge_cfs = latest_entry.value,
                             !.latest_ts = OrElse(latest_entry.dateTime, r.latest_ts)]
         ELSE r

(* One iteration of `for series in time_series`.  sr.code is the first     *)
(* variableCode, sr.samples the list values[0]["value"] (empty also when   *)
(* `values` is empty); a sample's value is None when float() rejects it.   *)
SeriesStep(r, sr) ==
    IF sr.samples = <<>> THEN r
    ELSE LET latest_entry == sr.samples[Len(sr.samples)] IN
         IF latest_entry.value = None THEN r
         ELSE IF sr.code = STAGE_CODE
              THEN [r EXCEPT !.stage_ft = latest_entry.value,
                             !.latest_ts = OrElse(latest_entry.dateTime, r.latest_ts)]
         ELSE IF sr.code = DISCHARGE_CODE
              THEN [r EXCEPT !.discharge_cfs = latest_entry.value,
                             !.latest_ts = OrElse(latest_entry.dateTime, r.latest_ts)]
         ELSE r

RECURSIVE ReadAllSeries(_)
ReadAllSeries(time_series) ==
    IF time_series = <<>> THEN NoReading
    ELSE SeriesStep(ReadAllSeries(SubSeq(time_series, 1, Len(time_series) - 1)),
                    time_series[Len(time_series)])

(* Mutant: a response without any reading yields an entry with both fields *)
(* None instead of raising                                                 *)
Conclude_NoDataIsEntry(gauge_id, n_blocks, r) ==
    IF n_blocks = 0 THEN Raise("ValueError")
    ELSE [gauge_id      |-> gauge_id,
          timestamp     |-> r.latest_ts,
          stage_ft      |-> r.stage_ft,
          discharge_cfs |-> r.discharge_cfs]

(* What follows the loop, given how many blocks time_series held *)
Conclude(gauge_id, n_blocks, r) ==
    IF n_blocks = 0 THEN Raise("ValueError")
    ELSE IF r.stage_ft = None /\ r.discharge_cfs = None THEN Raise("ValueError")
    ELSE [gauge_id      |-> gauge_id,
          timestamp     |-> r.latest_ts,
          stage_ft      |-> r.stage_ft,
          discharge_cfs |-> r.discharge_cfs]

(* The call on a whole answer: resp.kind is "RequestException" (requests   *)
(* raised or the status was an error), "InvalidJSON" (resp.json() raised   *)
(* ValueError) or "payload" with resp.timeSeries.  The "raw" field of the  *)
(* result, a copy of the payload, is left out.                             *)
fetch_usgs_gauge_data(gauge_id, resp) ==
    IF resp.kind = "RequestException" THEN Raise("RequestException")
    ELSE IF resp.kind = "InvalidJSON" THEN Raise("ValueError")
    ELSE Conclude(gauge_id, Len(resp.timeSeries), ReadAllSeries(resp.timeSeries))

-----------------------------------------------------------------------------
(* SpecUsgs: one call of fetch_usgs_gauge_data, one timeSeries block per step *)

MaxSeries == 2

MaxSamples == 2

(* Sample instants; a numeric sample carries the value 10 * instant, so    *)
(* the value tells which sample was reported.                              *)
SampleTimes == {1, 2}

Samples ==
    UNION {{[value |-> Num(10 * t), dateTime |-> Num(t)],
            [value |-> None, dateTime |-> Num(t)]} : t \in SampleTimes}
    \cup {[value |-> Num(5), dateTime |-> None], [value |-> Num(5), dateTime |-> EmptyText]}

SampleLists == UNION {[1..n -> Samples] : n \in 0..MaxSamples}

SeriesBlocks == [code : {STAGE_CODE, DISCHARGE_CODE, "00010"}, samples : SampleLists]

InitUsgs ==
    /\ response \in {"RequestException", "InvalidJSON", "payload"}
    /\ series = None /\ n_series = 0
    /\ prev_reading = NoReading /\ reading = NoReading
    /\ observation = None
    /\ IdleCls /\ IdleRain /\ IdleRun /\ IdleFc

FailRequest ==
    /\ observation = None
    /\ response # "payload"
    /\ observation' = fetch_usgs_gauge_data("g", [kind |-> response])
    /\ UNCHANGED <<response, series, n_series, prev_reading, reading>>
    /\ UNCHANGED <<clsVars, rainVars, runVars, fcVars>>

ReadSeries ==
    \E sr \in SeriesBlocks :
        /\ observation = None
        /\ response = "payload"
        /\ n_series < MaxSeries
        /\ series' = sr
        /\ n_series' = n_series + 1
        /\ prev_reading' = reading
        /\ reading' = SeriesStep(reading, sr)
        /\ UNCHANGED <<response, observation>>
        /\ UNCHANGED <<clsVars, rainVars, runVars, fcVars>>

ReturnObservation ==
    /\ observation = None
    /\ response = "payload"
    /\ observation' = Conclude("g", n_series, reading)
    /\ UNCHANGED <<response, series, n_series, prev_reading, reading>>
    /\ UNCHANGED <<clsVars, rainVars, runVars, fcVars>>

NextUsgs == FailRequest \/ ReadSeries \/ ReturnObservation

SpecUsgs == InitUsgs /\ [][NextUsgs]_vars


-----------------------------------------------------------------------------
(* Claims about fetch_usgs_gauge_data, checked under SpecUsgs *)

Returned == observation # None /\ ~IsRaised(observation)

ParamCodes == {STAGE_CODE, DISCHARGE_CODE}

(* The field of a reading or of a result that holds parameter `code` *)
Field(r, code) == IF code = STAGE_CODE THEN r.stage_ft ELSE r.discharge_cfs

Timestamped(ss) == {i \in DOMAIN ss : ss[i].dateTime # None /\ ss[i].dateTime # EmptyText}

(* The values of the samples whose timestamp is the latest of the block *)
ChronoLatestValues(ss) ==
    {ss[i].value : i \in {k \in Timestamped(ss) :
                            \A j \in Timestamped(ss) : RLeq(ss[j].dateTime, ss[k].dateTime)}}

(* Every sample timestamped, instants never decreasing along the list *)
ListedInTimeOrder(ss) ==
    /\ Timestamped(ss) = DOMAIN ss
    /\ \A i, j \in DOMAIN ss : i < j => RLeq(ss[i].dateTime, ss[j].dateTime)

NumericLast(ss) == ss # <<>> /\ ss[Len(ss)].value # None

(* C10 as claimed: for every successful response in which a parameter      *)
(* (stage 00065 or discharge 00060) carries one or more timestamped        *)
(* samples, the reported value of that parameter is the value of the       *)
(* sample with the chronologically latest timestamp.  Stated for the       *)
(* responses of a single timeSeries block whose samples are all            *)
(* timestamped and numeric.                                                *)
C10_ReportsChronologicallyLatest ==
    (/\ Returned /\ n_series = 1
     /\ series.code \in ParamCodes
     /\ series.samples # <<>>
     /\ Timestamped(series.samples) = DOMAIN series.samples
     /\ \A i \in DOMAIN series.samples : series.samples[i].value # None)
    => Field(observation, series.code) \in ChronoLatestValues(series.samples)

(* C10 as amended: each timeSeries block of parameter 00065 or 00060       *)
(* whose last-listed sample is numeric sets that parameter to the value of *)
(* its last-listed sample and leaves the other parameter alone, any other  *)
(* block changes neither, and the call reports the two values so reached;  *)
(* the last-listed sample is the chronologically latest one of its block   *)
(* whenever the block lists its samples in ascending timestamp order.      *)
C10_ReportsLastListedSample ==
    /\ n_series > 0 =>
          LET ss   == series.samples
              last == ss[Len(ss)].value
          IN  /\ reading.stage_ft =
                    IF series.code = STAGE_CODE /\ NumericLast(ss)
                    THEN last ELSE prev_reading.stage_ft
              /\ reading.discharge_cfs =
                    IF series.code = DISCHARGE_CODE /\ NumericLast(ss)
                    THEN last ELSE prev_reading.discharge_cfs
              /\ (series.code \in ParamCodes /\ NumericLast(ss) /\ ListedInTimeOrder(ss))
                    => Field(reading, series.code) \in ChronoLatestValues(ss)
    /\ Returned =>
          /\ observation.stage_ft = reading.stage_ft
          /\ observation.discharge_cfs = reading.discharge_cfs

C10_Witness ==
    /\ Returned /\ n_series = 2
    /\ series.code = STAGE_CODE
    /\ Len(series.samples) = 2
    /\ ListedInTimeOrder(series.samples)
    /\ series.samples[1].dateTime # series.samples[2].dateTime
    /\ series.samples[1].value # None
    /\ observation.stage_ft = series.samples[2].value
    /\ observation.discharge_cfs # None


(* The entry fetch_all_gauges records for the gauge of this call           *)
(* (usgs_fetch.py:146-150): the observation, or the error marker when the  *)
(* call raised.                                                            *)
StageEntry ==
    IF IsRaised(observation) THEN [gauge_id |-> "g", error |-> observation.error]
    ELSE observation

(* The call has ended, by returning or by raising *)
Ended == observation # None

HasErrorMarker(e) == "error" \in DOMAIN e

(* C11 as claimed: a gauge's stage entry carries an error marker if and    *)
(* only if the request itself failed; whenever the request succeeds the    *)
(* gauge gets a non-error entry in which each parameter without a usable   *)
(* sample (stage, discharge, or both) is left None.                        *)
C11_ErrorMarkerIffRequestFailed ==
    Ended =>
        /\ HasErrorMarker(StageEntry) <=> response # "payload"
        /\ response = "payload" =>
              /\ Get(StageEntry, "stage_ft") = reading.stage_ft
              /\ Get(StageEntry, "discharge_cfs") = reading.discharge_cfs

(* C11 as amended: the stage entry carries an error marker if and only if  *)
(* the request failed, the body was not JSON, the response listed no       *)
(* timeSeries block, or no reading was taken for stage and none for        *)
(* discharge; when a reading was taken for at least one of the two, the    *)
(* entry is a non-error entry that holds each reading taken and None for   *)
(* the parameter without one.                                              *)
C11_ErrorMarkerIffNothingRead ==
    Ended =>
        /\ HasErrorMarker(StageEntry) <=>
              \/ response # "payload"
              \/ n_series = 0
              \/ reading.stage_ft = None /\ reading.discharge_cfs = None
        /\ ~HasErrorMarker(StageEntry) =>
              /\ DOMAIN StageEntry = {"gauge_id", "timestamp", "stage_ft", "discharge_cfs"}
              /\ StageEntry.stage_ft = reading.stage_ft
              /\ StageEntry.discharge_cfs = reading.discharge_cfs
        /\ HasErrorMarker(StageEntry) => DOMAIN StageEntry = {"gauge_id", "error"}

C11_Witness ==
    /\ Ended /\ response = "payload" /\ n_series = 2
    /\ reading.stage_ft = None /\ reading.discharge_cfs # None
    /\ ~HasErrorMarker(StageEntry)
    /\ StageEntry.stage_ft = None
    /\ StageEntry.discharge_cfs = reading.discharge_cfs


-----------------------------------------------------------------------------
(* data_ingestion/nws_fetch.py: point metadata, forecast parsing *)

(* get_point_metadata on an answer of the points endpoint: meta.kind is    *)
(* "RequestException", "InvalidJSON", "incomplete" (a property missing) or *)
(* "ok".                                                                   *)
get_point_metadata(meta) ==
    IF meta.kind = "RequestException" THEN Raise("RequestException")
    ELSE IF meta.kind = "InvalidJSON" THEN Raise("ValueError")
    ELSE IF meta.kind = "incomplete" THEN Raise("ValueError")
    ELSE [forecast_url |-> "forecastGridData"]

(* _parse_valid_time on "start/duration".  vt.start is None when           *)
(* fromisoformat rejects the start; vt.duration.form names the shape of    *)
(* the duration text and vt.duration.n its number (None when float()       *)
(*  rejects what stands between "PT" and the last letter):                 *)
(*    "PTnH"  hours          "PTnM"  minutes                               *)
(*    "PTnHmM" hours and minutes: starts with PT, ends with M, and the     *)
(*             text between is no number                                   *)
(*    "PnD", "PnDTmH", "PTnS": neither branch applies, hours stays 0       *)
_parse_valid_time(vt) ==
    IF vt.start = None THEN Raise("ValueError")
    ELSE IF vt.duration.form = "PTnH"
         THEN IF vt.duration.n = None THEN Raise("ValueError")
              ELSE [start |-> vt.start, duration |-> vt.duration.n]
    ELSE IF vt.duration.form = "PTnM"
         THEN IF vt.duration.n = None THEN Raise("ValueError")
              ELSE [start |-> vt.start, duration |-> RDiv(vt.duration.n, Num(60))]
    ELSE IF vt.duration.form = "PTnHmM" THEN Raise("ValueError")
    ELSE [start |-> vt.start, duration |-> Zero]

(* A precipitation value float() rejects, such as the text "n/a" *)
NotANumber == <<"n/a">>

(* One iteration of `for item in qpf.get("values", []) or []`, as the      *)
(* record [qpf |-> qpf_entries after it], or the ValueError of             *)
(* float(value_mm), which nothing in fetch_nws_forecast catches.           *)
QpfStep(entries, it) ==
    IF it.validTime = None \/ it.value = None THEN [qpf |-> entries]
    ELSE LET parsed == _parse_valid_time(it.validTime) IN
         IF IsRaised(parsed) THEN [qpf |-> entries]
         ELSE IF it.value = NotANumber THEN Raise("ValueError")
         ELSE [qpf |-> Append(entries, [start    |-> parsed.start,
                                        duration |-> parsed.duration,
                                        value_mm |-> it.value])]

(* The loop over the listed values: [qpf |-> qpf_entries], or the error    *)
(* an iteration raised                                                     *)
RECURSIVE ParseQpf(_)
ParseQpf(values) ==
    IF values = <<>> THEN [qpf |-> <<>>]
    ELSE LET rest == ParseQpf(SubSeq(values, 1, Len(values) - 1)) IN
         IF IsRaised(rest) THEN rest
         ELSE QpfStep(rest.qpf, values[Len(values)])

(* fetch_nws_forecast on an answer of the forecast endpoint: fc.kind is    *)
(* "RequestException", "InvalidJSON" or "payload" with fc.values, the list *)
(* properties.quantitativePrecipitation.values.  The "pop" and "raw"       *)
(* fields of the result, which nothing reads, are left out.                *)
fetch_nws_forecast(fc) ==
    IF fc.kind = "RequestException" THEN Raise("RequestException")
    ELSE IF fc.kind = "InvalidJSON" THEN Raise("ValueError")
    ELSE ParseQpf(fc.values)

-----------------------------------------------------------------------------
(* The per-gauge loops of usgs_fetch.py and nws_fetch.py, classify_all *)

(* str() of an integer, for the integers an identifier is drawn from *)
IntText == [n \in 0..9 |-> <<"0", "1", "2", "3", "4", "5", "6", "7", "8", "9">>[n + 1]]

(* str(gauge.get("id")).  The "id" of a gauge entry is a YAML value: the   *)
(* text [text |-> s], the integer [int |-> n], or None (`id:` without a    *)
(* value); get() gives None also when the key is absent, and str(None) is  *)
(* 'None'.                                                                 *)
StrId(gauge) ==
    LET v == Get(gauge, "id") IN
    IF v = None THEN "None"
    ELSE IF HasKey(v, "text") THEN v.text
    ELSE IntText[v.int]

(* results[k] = v *)
Put(d, k, v) == [x \in DOMAIN d \cup {k} |-> IF x = k THEN v ELSE d[x]]

ErrorEntry(gauge_id, raised) == [gauge_id |-> gauge_id, error |-> raised.error]

(* `if not gauge_id: continue` *)
SkipsUsgs(gauge) == StrId(gauge) = ""

(* `if not gauge_id or lat is None or lon is None: continue` *)
SkipsForecast(gauge) ==
    StrId(gauge) = "" \/ Get(gauge, "latitude") = None \/ Get(gauge, "longitude") = None

(* Mutant: no try/except around the fetch, the exception leaves the loop *)
UsgsIteration_NoExcept(results, gauge, answer) ==
    LET gauge_id == StrId(gauge) IN
    IF SkipsUsgs(gauge) THEN results
    ELSE LET got == fetch_usgs_gauge_data(gauge_id, answer) IN
         IF IsRaised(got) THEN got
         ELSE Put(results, gauge_id, got)

(* One iteration of the loop of fetch_all_gauges: the results dict after   *)
(* it.                                                                     *)
UsgsIteration(results, gauge, answer) ==
    LET gauge_id == StrId(gauge) IN
    IF SkipsUsgs(gauge) THEN results
    ELSE LET got == fetch_usgs_gauge_data(gauge_id, answer) IN
         IF IsRaised(got) THEN Put(results, gauge_id, ErrorEntry(gauge_id, got))
         ELSE Put(results, gauge_id, got)

(* The try block of fetch_all_gauges_forecast for one gauge *)
ForecastEntry(gauge_id, lat, lon, answer, now) ==
    LET meta == get_point_metadata(answer.meta) IN
    IF IsRaised(meta) THEN meta
    ELSE LET forecast == fetch_nws_forecast(answer.forecast) IN
         IF IsRaised(forecast) THEN forecast
         ELSE [gauge_id    |-> gauge_id,
               lat         |-> lat,
               lon         |-> lon,
               rain_72h_mm |-> compute_72h_rain_mm(forecast.qpf, now)]

(* The iterations that reach compute_72h_rain_mm, which reads the clock *)
ReadsClock(gauge, answer) ==
    /\ ~SkipsForecast(gauge)
    /\ ~IsRaised(get_point_metadata(answer.meta))
    /\ ~IsRaised(fetch_nws_forecast(answer.forecast))

(* One iteration of the loop of fetch_all_gauges_forecast *)
ForecastIteration(results, gauge, answer, now) ==
    LET gauge_id == StrId(gauge)
        lat      == Get(gauge, "latitude")
        lon      == Get(gauge, "longitude")
    IN  IF SkipsForecast(gauge) THEN results
        ELSE LET got == ForecastEntry(gauge_id, lat, lon, answer, now) IN
             IF IsRaised(got) THEN Put(results, gauge_id, ErrorEntry(gauge_id, got))
             ELSE Put(results, gauge_id, got)

(* Mutant: the flood stage is looked up by position, that of the gauge     *)
(* listed first, not by identifier                                         *)
FloodStageLookup_ByPosition(gauge_list, gauge_id) ==
    IF gauge_list = <<>> THEN None ELSE Get(gauge_list[1], "flood_stage_ft")

(* flood_stage_lookup.get(gauge_id): the flood stage of the last listed    *)
(* gauge that has the key "id" and whose str(id) is gauge_id               *)
FloodStageLookup(gauge_list, gauge_id) ==
    LET hits == {i \in DOMAIN gauge_list :
                    HasKey(gauge_list[i], "id") /\ StrId(gauge_list[i]) = gauge_id}
    IN  IF hits = {} THEN None
        ELSE Get(gauge_list[CHOOSE i \in hits : \A j \in hits : j <= i], "flood_stage_ft")

(* Mutant: classify_all walks the configured gauges that have both a stage *)
(* entry and a rainfall entry                                              *)
ClassifyKeys_NeedsBoth(usgs, rain) == DOMAIN usgs \cap DOMAIN rain

(* The gauges classify_all walks: the keys of usgs_data *)
ClassifyKeys(usgs, rain) == DOMAIN usgs

(* Mutant: rainfall_data[gauge_id] for rainfall_data.get(gauge_id, {}): a   *)
(* gauge without a rainfall entry raises KeyError                          *)
classify_all_RainRequired(usgs, rain, gauge_list, thr) ==
    LET one(k) == classify_gauge(k,
                                 Get(usgs[k], "stage_ft"),
                                 FloodStageLookup(gauge_list, k),
                                 Get(Get(rain, k), "rain_72h_mm"),
                                 thr)
        keys == ClassifyKeys(usgs, rain)
    IN  IF \E k \in keys : k \notin DOMAIN rain \/ IsRaised(one(k)) THEN Raise(KeyError)
        ELSE [k \in keys |-> one(k)]

(* classify_all: the mapping of assessments, or the error that the first   *)
(* failing classify_gauge raised                                           *)
classify_all(usgs, rain, gauge_list, thr) ==
    LET one(k) == classify_gauge(k,
                                 Get(usgs[k], "stage_ft"),
                                 FloodStageLookup(gauge_list, k),
                                 Get(Get(rain, k), "rain_72h_mm"),
                                 thr)
        keys == ClassifyKeys(usgs, rain)
    IN  IF \E k \in keys : IsRaised(one(k)) THEN Raise(KeyError)
        ELSE [k \in keys |-> one(k)]


-----------------------------------------------------------------------------
(* Spec: one run of cli/run_mvp1.py run() *)

MaxGauges == 2

(* Gauge entries of the configuration file: the id a text, an integer, the *)
(* empty text, null or missing, the coordinates given or the latitude      *)
(* missing, the flood stage given or missing.                              *)
NamedGauges ==
    {[id |-> [text |-> "A"], latitude |-> Num(38), longitude |-> Num(-121),
      flood_stage_ft |-> Num(2)],
     [id |-> [text |-> "A"], latitude |-> Num(38), longitude |-> Num(-121)],
     [id |-> [text |-> "A"], longitude |-> Num(-121), flood_stage_ft |-> Num(2)],
     [id |-> [int |-> 7], latitude |-> Num(38), longitude |-> Num(-121),
      flood_stage_ft |-> Num(2)]}

GaugeEntries ==
    NamedGauges \cup
    {[id |-> [text |-> ""], latitude |-> Num(38), longitude |-> Num(-121),
      flood_stage_ft |-> Num(2)],
     [id |-> None, latitude |-> Num(38), longitude |-> Num(-121), flood_stage_ft |-> Num(2)],
     [latitude |-> Num(38), longitude |-> Num(-121), flood_stage_ft |-> Num(2)]}

GaugeLists == UNION {[1..n -> GaugeEntries] : n \in 0..MaxGauges}

(* Thresholds documents of a run: the test's shape, and one with a key missing *)
RunThresholds ==
    {[rainfall_mm_72h   |-> [low |-> Num(1), medium |-> Num(2), high |-> Num(3)],
      river_stage_ratio |-> [low |-> Frac(1, 2), medium |-> Num(1), high |-> Frac(3, 2)]],
     [rainfall_mm_72h   |-> [low |-> Num(1), medium |-> Num(2)],
      river_stage_ratio |-> [low |-> Frac(1, 2), medium |-> Num(1), high |-> Frac(3, 2)]]}

(* Answers of the stage source: the request fails, a stage sample, a       *)
(* discharge sample only                                                   *)
UsgsAnswers ==
    {[kind |-> "RequestException"],
     [kind |-> "payload", timeSeries |->
        <<[code |-> STAGE_CODE, samples |-> <<[value |-> Num(2), dateTime |-> Num(1)]>>]>>],
     [kind |-> "payload", timeSeries |->
        <<[code |-> DISCHARGE_CODE, samples |-> <<[value |-> Num(900), dateTime |-> Num(1)]>>]>>]}

(* Answers of the forecast source: incomplete point metadata, one 6 h      *)
(* period of 3 mm that starts one hour after the run                       *)
NwsAnswers ==
    {[meta |-> [kind |-> "incomplete"], forecast |-> [kind |-> "payload", values |-> <<>>]],
     [meta |-> [kind |-> "ok"], forecast |-> [kind |-> "payload", values |->
        <<[validTime |-> [start |-> Num(1), duration |-> [form |-> "PTnH", n |-> Num(6)]],
           value     |-> Num(3)]>>]]}

FilesOk == [gauges |-> "ok", thresholds |-> "ok"]

(* States of a configuration file other than a well-formed document:       *)
(*   "missing"            the path does not exist                          *)
(*   "invalid_yaml"       yaml.safe_load raises                            *)
(*   "not_mapping"        the top level is a non-empty list or a scalar    *)
(*   "falsy_not_mapping"  the top level is [], 0, false or '': no mapping, *)
(*                        and `yaml.safe_load(f) or {}` makes it {}        *)
(*   "gauges_not_list"    a mapping whose "gauges" is not a list           *)
GaugeFileStates ==
    {"ok", "missing", "invalid_yaml", "not_mapping", "falsy_not_mapping", "gauges_not_list"}

ThresholdsFileStates == {"ok", "missing", "invalid_yaml", "not_mapping", "falsy_not_mapping"}

BadFiles == [gauges : GaugeFileStates, thresholds : ThresholdsFileStates] \ {FilesOk}

NotCalled == [usgs |-> None, nws |-> None, now |-> None]

(* What datetime.now() can read during a run, in hours after its start *)
ClockReadings == {Zero, Num(2)}

(* gauges is the list cfg.get("gauges", []) of the gauge file, thresholds  *)
(* the document of the thresholds file: {} for a falsy top level, None     *)
(* where the file gives no document.  A run on a thresholds document that *)
(* lacks a key is followed for the gauge lists of at most one gauge.       *)
Init ==
    /\ pc = "load"
    /\ \/ /\ files = FilesOk
          /\ gauges \in GaugeLists
          /\ thresholds \in RunThresholds
          /\ Complete(thresholds) \/ Len(gauges) <= 1
       \/ /\ files \in BadFiles
          /\ gauges \in IF files.gauges = "ok" /\ files.thresholds = "falsy_not_mapping"
                        THEN {g \in GaugeLists : Len(g) <= 1} ELSE {<<>>}
          /\ thresholds = IF files.thresholds = "ok" THEN CHOOSE t \in RunThresholds : Complete(t)
                          ELSE IF files.thresholds = "falsy_not_mapping" THEN <<>>
                          ELSE None
    /\ cursor = 0
    /\ usgs_data = None /\ rainfall = None
    /\ outcomes = [i \in DOMAIN gauges |-> NotCalled]
    /\ result = None
    /\ stage_ft = None /\ flood_stage_ft = None /\ rain_mm_72h = None /\ assessment = None
    /\ IdleRain /\ IdleUsgs /\ IdleFc

(* load_yaml on a configuration file in the given state; None stands for   *)
(* the returned dict, whose content the variables gauges and thresholds    *)
(* hold.                                                                   *)
load_yaml(state) ==
    IF state = "missing" THEN Raise("FileNotFoundError")
    ELSE IF state = "invalid_yaml" THEN Raise("YAMLError")
    ELSE IF state = "falsy_not_mapping" THEN None
    ELSE IF state = "not_mapping" THEN Raise("ValueError")
    ELSE None

(* _load_gauge_config on the gauge file in the given state; None stands    *)
(* for the returned list.                                                  *)
_load_gauge_config(state) ==
    IF state = "missing" THEN Raise("FileNotFoundError")
    ELSE IF state = "invalid_yaml" THEN Raise("YAMLError")
    ELSE IF state = "falsy_not_mapping" THEN None
    ELSE IF state = "not_mapping" THEN Raise("AttributeError")
    ELSE IF state = "gauges_not_list" THEN Raise("ValueError")
    ELSE None

Unchanged_Calls ==
    UNCHANGED <<stage_ft, flood_stage_ft, rain_mm_72h, assessment, rainVars, usgsVars, fcVars>>

(* run(): the two load_yaml calls *)
LoadConfig ==
    /\ pc = "load"
    /\ IF IsRaised(load_yaml(files.gauges))
       THEN pc' = "raised:config" /\ result' = load_yaml(files.gauges)
       ELSE IF IsRaised(load_yaml(files.thresholds))
       THEN pc' = "raised:config" /\ result' = load_yaml(files.thresholds)
       ELSE pc' = "gauge_list" /\ result' = result
    /\ UNCHANGED <<files, gauges, thresholds, cursor, usgs_data, rainfall, outcomes>>
    /\ Unchanged_Calls

(* fetch_all_gauges: _load_gauge_config, results = {} *)
LoadGaugeList ==
    /\ pc = "gauge_list"
    /\ IF IsRaised(_load_gauge_config(files.gauges))
       THEN /\ pc' = "raised:config"
            /\ result' = _load_gauge_config(files.gauges)
            /\ UNCHANGED <<cursor, usgs_data>>
       ELSE /\ pc' = "usgs"
            /\ cursor' = 1
            /\ usgs_data' = <<>>
            /\ result' = result
    /\ UNCHANGED <<files, gauges, thresholds, rainfall, outcomes>>
    /\ Unchanged_Calls

(* fetch_all_gauges: one iteration of `for gauge in gauges` *)
FetchGauge ==
    /\ pc = "usgs"
    /\ cursor <= Len(gauges)
    /\ \E answer \in UsgsAnswers :
          LET gauge == gauges[cursor]
              new   == UsgsIteration(usgs_data, gauge, answer)
          IN  /\ outcomes' = [outcomes EXCEPT ![cursor].usgs =
                                 IF SkipsUsgs(gauge) THEN None ELSE answer]
              /\ IF IsRaised(new)
                 THEN pc' = "raised:usgs_loop" /\ result' = new
                      /\ UNCHANGED <<usgs_data, cursor>>
                 ELSE pc' = pc /\ result' = result
                      /\ usgs_data' = new /\ cursor' = cursor + 1
    /\ UNCHANGED <<files, gauges, thresholds, rainfall>>
    /\ Unchanged_Calls

(* fetch_all_gauges returns; fetch_all_gauges_forecast reads the gauge     *)
(* list again and starts with results = {}                                 *)
StartForecasts ==
    /\ pc = "usgs"
    /\ cursor > Len(gauges)
    /\ pc' = "forecast"
    /\ cursor' = 1
    /\ rainfall' = <<>>
    /\ UNCHANGED <<files, gauges, thresholds, usgs_data, outcomes, result>>
    /\ Unchanged_Calls

(* fetch_all_gauges_forecast: one iteration of `for gauge in gauges`.      *)
(* compute_72h_rain_mm reads datetime.now() anew in every call, so each    *)
(* iteration that reaches it has its own reading of the clock, no earlier  *)
(* than the one before; an iteration that skips the gauge or fails before  *)
(* the call reads no clock and is placed at the latest reading.            *)
(* window_start holds the latest reading.                                  *)
FetchForecast ==
    /\ pc = "forecast"
    /\ cursor <= Len(gauges)
    /\ \E answer \in NwsAnswers, now \in ClockReadings :
          LET gauge == gauges[cursor]
              new   == ForecastIteration(rainfall, gauge, answer, now)
          IN  /\ RLeq(window_start, now)
              /\ ReadsClock(gauge, answer) \/ now = window_start
              /\ window_start' = now
              /\ outcomes' = [outcomes EXCEPT ![cursor].nws =
                                 IF SkipsForecast(gauge) THEN None ELSE answer,
                                              ![cursor].now = now]
              /\ IF IsRaised(new)
                 THEN pc' = "raised:forecast_loop" /\ result' = new
                      /\ UNCHANGED <<rainfall, cursor>>
                 ELSE pc' = pc /\ result' = result
                      /\ rainfall' = new /\ cursor' = cursor + 1
    /\ UNCHANGED <<files, gauges, thresholds, usgs_data>>
    /\ UNCHANGED <<stage_ft, flood_stage_ft, rain_mm_72h, assessment, usgsVars, fcVars>>
    /\ UNCHANGED <<entry, n_seen, total_mm, added, prorated_sum, overlap_value_sum>>

(* run(): classify_all and the result document *)
ClassifyAll ==
    /\ pc = "forecast"
    /\ cursor > Len(gauges)
    /\ LET risks == classify_all(usgs_data, rainfall, gauges, thresholds) IN
       IF IsRaised(risks)
       THEN pc' = "raised:classify" /\ result' = risks
       ELSE pc' = "done"
            /\ result' = [gauges |-> risks, usgs |-> usgs_data, rainfall |-> rainfall]
    /\ UNCHANGED <<files, gauges, thresholds, cursor, usgs_data, rainfall, outcomes>>
    /\ Unchanged_Calls

Next ==
    \/ LoadConfig
    \/ LoadGaugeList
    \/ FetchGauge
    \/ StartForecasts
    \/ FetchForecast
    \/ ClassifyAll

Spec == Init /\ [][Next]_vars


-----------------------------------------------------------------------------
(* Claims about the run, checked under Spec *)

Done == pc = "done"

ConfiguredIds == {StrId(gauges[i]) : i \in DOMAIN gauges}

(* C5 as claimed: after a run that gets past configuration loading, for    *)
(* any list of configured gauges and any fetch outcomes, the gauge mapping *)
(* of the final result holds an entry for every configured gauge.          *)
C5_EveryConfiguredGaugeHasEntry ==
    Done => \A i \in DOMAIN gauges : StrId(gauges[i]) \in DOMAIN result.gauges

(* C5 as amended: the gauge mapping of the final result holds exactly one  *)
(* entry, under str(id), for every configured gauge whose identifier is    *)
(* not the empty string, whatever its fetches did, and no other entry; a   *)
(* gauge whose identifier is the empty string is skipped by both ingestion *)
(* loops and has no entry.                                                 *)
C5_EveryNamedGaugeHasEntry ==
    Done =>
        /\ DOMAIN result.gauges = ConfiguredIds \ {""}
        /\ \A k \in DOMAIN result.gauges : result.gauges[k].gauge_id = k

C5_Witness ==
    /\ Done
    /\ \E i, j \in DOMAIN gauges :
          /\ StrId(gauges[j]) = ""
          /\ StrId(gauges[i]) = "A"
          /\ outcomes[i].usgs # None
          /\ outcomes[i].usgs.kind = "RequestException"
          /\ outcomes[i].nws = None
          /\ "A" \in DOMAIN result.gauges
          /\ "A" \notin DOMAIN result.rainfall

(* The gauges the loop of fetch_all_gauges has been through *)
UsgsPassed(i) ==
    \/ pc = "usgs" /\ i < cursor
    \/ pc \in {"forecast", "done", "raised:classify", "raised:forecast_loop"}

(* The gauges the loop of fetch_all_gauges_forecast has been through *)
ForecastPassed(i) ==
    \/ pc = "forecast" /\ i < cursor
    \/ pc \in {"done", "raised:classify"}

(* The entry a gauge's own answer calls for, whatever the other gauges did *)
OwnUsgsEntry(gauge, answer) ==
    LET got == fetch_usgs_gauge_data(StrId(gauge), answer) IN
    IF IsRaised(got) THEN [gauge_id |-> StrId(gauge), error |-> got.error] ELSE got

OwnForecastEntry(gauge, answer, now) ==
    LET got == ForecastEntry(StrId(gauge), Get(gauge, "latitude"), Get(gauge, "longitude"),
                             answer, now)
    IN  IF IsRaised(got) THEN [gauge_id |-> StrId(gauge), error |-> got.error] ELSE got

(* C6: neither per-gauge ingestion loop ever raises, whatever gauges are   *)
(* configured and whichever of their external calls fail; each gauge whose *)
(* call failed is recorded as an error entry under its own identifier, and *)
(* every gauge's entry is the one its own answer, at the clock reading of  *)
(* its own iteration, calls for, the same as if no other gauge had failed  *)
(* (of several gauges listed under one identifier, the last one's).        *)
C6_LoopsIsolateFailures ==
    /\ pc \notin {"raised:usgs_loop", "raised:forecast_loop"}
    /\ DOMAIN usgs_data =
          {StrId(gauges[i]) : i \in {j \in DOMAIN gauges : UsgsPassed(j) /\ ~SkipsUsgs(gauges[j])}}
    /\ DOMAIN rainfall =
          {StrId(gauges[i]) : i \in {j \in DOMAIN gauges : ForecastPassed(j) /\ ~SkipsForecast(gauges[j])}}
    /\ \A i \in DOMAIN gauges :
          (/\ UsgsPassed(i) /\ ~SkipsUsgs(gauges[i])
           /\ ~\E j \in DOMAIN gauges : j > i /\ UsgsPassed(j) /\ StrId(gauges[j]) = StrId(gauges[i]))
          => /\ usgs_data[StrId(gauges[i])] = OwnUsgsEntry(gauges[i], outcomes[i].usgs)
             /\ IsRaised(fetch_usgs_gauge_data(StrId(gauges[i]), outcomes[i].usgs))
                   => DOMAIN usgs_data[StrId(gauges[i])] = {"gauge_id", "error"}
    /\ \A i \in DOMAIN gauges :
          (/\ ForecastPassed(i) /\ ~SkipsForecast(gauges[i])
           /\ ~\E j \in DOMAIN gauges : /\ j > i /\ ForecastPassed(j) /\ ~SkipsForecast(gauges[j])
                                        /\ StrId(gauges[j]) = StrId(gauges[i]))
          => /\ rainfall[StrId(gauges[i])] = OwnForecastEntry(gauges[i], outcomes[i].nws, outcomes[i].now)
             /\ outcomes[i].nws.meta.kind # "ok"
                   => DOMAIN rainfall[StrId(gauges[i])] = {"gauge_id", "error"}

C6_Witness ==
    /\ Done /\ Len(gauges) = 2
    /\ StrId(gauges[1]) = "A" /\ StrId(gauges[2]) = "7"
    /\ outcomes[1].usgs # None /\ outcomes[1].usgs.kind = "RequestException"
    /\ outcomes[1].nws # None /\ outcomes[1].nws.meta.kind = "incomplete"
    /\ outcomes[2].usgs # None /\ outcomes[2].usgs.kind = "payload"
    /\ outcomes[2].nws # None /\ outcomes[2].nws.meta.kind = "ok"
    /\ "error" \in DOMAIN result.usgs["A"]
    /\ "error" \in DOMAIN result.rainfall["A"]
    /\ "stage_ft" \in DOMAIN result.usgs["7"]
    /\ "rain_72h_mm" \in DOMAIN result.rainfall["7"]


(* No listed gauge with this identifier has a flood stage *)
NoConfiguredFloodStage(k) ==
    \A i \in DOMAIN gauges :
        StrId(gauges[i]) = k => Get(gauges[i], "flood_stage_ft") = None

(* C12: with complete thresholds classify_all never fails because an input *)
(* is missing.  Every gauge of the stage results receives an assessment;   *)
(* its stage_risk is UNKNOWN if its stage entry is an error entry or has   *)
(* no stage value or the gauge has no configured flood stage; its          *)
(* rain_risk is UNKNOWN if its rainfall entry is missing or is an error    *)
(* entry; and with one sub-risk UNKNOWN the overall risk is the other one. *)
C12_MissingInputsGiveUnknown ==
    (Complete(thresholds) /\ pc \in {"done", "raised:classify"}) =>
        /\ pc = "done"
        /\ DOMAIN result.gauges = DOMAIN usgs_data
        /\ \A k \in DOMAIN usgs_data :
              LET a == result.gauges[k] IN
              /\ ~IsRaised(a)
              /\ (\/ HasErrorMarker(usgs_data[k])
                  \/ Get(usgs_data[k], "stage_ft") = None
                  \/ NoConfiguredFloodStage(k)) => a.stage_risk = "UNKNOWN"
              /\ (k \notin DOMAIN rainfall \/ HasErrorMarker(rainfall[k]))
                    => a.rain_risk = "UNKNOWN"
              /\ a.stage_risk = "UNKNOWN" => a.risk = a.rain_risk
              /\ a.rain_risk = "UNKNOWN" => a.risk = a.stage_risk

C12_Witness ==
    /\ Done /\ Complete(thresholds)
    /\ \E k, j \in DOMAIN result.gauges :
          /\ HasErrorMarker(usgs_data[k])
          /\ k \in DOMAIN rainfall /\ ~HasErrorMarker(rainfall[k])
          /\ result.gauges[k].stage_risk = "UNKNOWN"
          /\ result.gauges[k].risk = "MEDIUM"
          /\ j \notin DOMAIN rainfall
          /\ ~HasErrorMarker(usgs_data[j]) /\ usgs_data[j].stage_ft # None
          /\ result.gauges[j].rain_risk = "UNKNOWN"
          /\ result.gauges[j].risk \in {"LOW", "MEDIUM", "HIGH"}


(* C14 as claimed: if either configuration file is missing or malformed    *)
(* (not YAML, top level not a mapping, or the gauge list not a list), run  *)
(* ends with an error raised while the configuration is loaded: the run   *)
(* never reaches the per-gauge loops and no result document is produced.   *)
C14_BadConfigurationAborts ==
    (files # None /\ files # FilesOk) =>
        /\ pc \in {"load", "gauge_list", "raised:config"}
        /\ result = None \/ IsRaised(result)

(* fetch_all_gauges after the first n gauges of the list, each answered as *)
(* outs says                                                               *)
RECURSIVE UsgsLoop(_, _, _)
UsgsLoop(gauge_list, outs, n) ==
    IF n = 0 THEN <<>>
    ELSE UsgsIteration(UsgsLoop(gauge_list, outs, n - 1), gauge_list[n], outs[n].usgs)

(* fetch_all_gauges_forecast after the first n gauges of the list *)
RECURSIVE ForecastLoop(_, _, _)
ForecastLoop(gauge_list, outs, n) ==
    IF n = 0 THEN <<>>
    ELSE ForecastIteration(ForecastLoop(gauge_list, outs, n - 1), gauge_list[n],
                           outs[n].nws, outs[n].now)

(* What run() returns, or raises in classify_all, on a gauge list whose    *)
(* fetches are answered as outs says                                       *)
RunResult(gauge_list, outs) ==
    LET usgs  == UsgsLoop(gauge_list, outs, Len(gauge_list))
        rain  == ForecastLoop(gauge_list, outs, Len(gauge_list))
        risks == classify_all(usgs, rain, gauge_list, thresholds)
    IN  IF IsRaised(risks) THEN risks
        ELSE [gauges |-> risks, usgs |-> usgs, rainfall |-> rain]

(* The orders in which n gauges can be listed *)
Orders(n) == {f \in [1..n -> 1..n] : \A i, j \in 1..n : i # j => f[i] # f[j]}

Reorder(seq, f) == [i \in DOMAIN seq |-> seq[f[i]]]

(* run() has gone through both loops and classify_all *)
Finished == pc \in {"done", "raised:classify"}

DistinctIds == \A i, j \in DOMAIN gauges : i # j => StrId(gauges[i]) # StrId(gauges[j])

(* The answers follow their gauges to the new order; the clock readings    *)
(* stay with the iterations, the n-th gauge processed is evaluated at the  *)
(* n-th reading                                                            *)
ReorderAnswers(outs, f) ==
    [i \in DOMAIN outs |-> [usgs |-> outs[f[i]].usgs, nws |-> outs[f[i]].nws, now |-> outs[i].now]]

(* C15 as claimed: for fixed configured gauges and fixed per-gauge fetch   *)
(* outcomes, the result of the run (assessments and the two ingestion      *)
(* snapshots) is the same for every order in which the gauges are listed   *)
(* and processed.                                                          *)
C15_ResultIndependentOfOrder ==
    Finished =>
        \A f \in Orders(Len(gauges)) :
            RunResult(Reorder(gauges, f), ReorderAnswers(outcomes, f)) = result

(* C15 as amended: for configured gauges with pairwise distinct            *)
(* identifiers, fixed per-gauge fetch outcomes and a fixed instant at      *)
(* which each gauge's 72-hour total is computed, the result of the run is  *)
(* the same for every order in which the gauges are listed and processed.  *)
(* (Of gauges that share an identifier the one processed last determines   *)
(* the shared entries, and a gauge processed later has its total computed  *)
(* on a later window, so in both ways the order shows in the result.)      *)
C15_DistinctIdsIndependentOfOrder ==
    (Finished /\ DistinctIds) =>
        \A f \in Orders(Len(gauges)) :
            RunResult(Reorder(gauges, f), Reorder(outcomes, f)) = result

C15_Witness ==
    /\ Done /\ Len(gauges) = 2 /\ DistinctIds
    /\ StrId(gauges[1]) = "A" /\ StrId(gauges[2]) = "7"
    /\ Get(gauges[1], "flood_stage_ft") # Get(gauges[2], "flood_stage_ft")
    /\ outcomes[1].usgs # None /\ outcomes[2].usgs # None
    /\ outcomes[1].usgs # outcomes[2].usgs
    /\ outcomes[1].now # outcomes[2].now
    /\ DOMAIN result.rainfall = {"A", "7"}
    /\ HasKey(result.rainfall["A"], "rain_72h_mm")
    /\ HasKey(result.rainfall["7"], "rain_72h_mm")
    /\ result.rainfall["A"].rain_72h_mm # result.rainfall["7"].rain_72h_mm
    /\ RunResult(<<gauges[2], gauges[1]>>, <<outcomes[2], outcomes[1]>>) = result

-----------------------------------------------------------------------------
(* SpecForecast: the try block of fetch_all_gauges_forecast for one gauge, *)
(* one quantitativePrecipitation value per step, and the classification of *)
(* the gauge on the entry it produced                                      *)

MaxItems == 2

(* Starts of a validity interval, in hours after the first clock reading:  *)
(* early in the window, and so late that a 6 h period crosses the end of   *)
(* the window that starts at that reading                                  *)
ForecastStarts == {Num(1), Num(70)}

(* Duration texts: 'PT6H', 'PTxH' with x no number, 'PT90M', 'PT1H30M',    *)
(* 'P1D', 'P1DT6H'                                                         *)
DurationTexts ==
    {[form |-> "PTnH", n |-> Num(6)],
     [form |-> "PTnH", n |-> None],
     [form |-> "PTnM", n |-> Num(90)],
     [form |-> "PTnHmM", n |-> None],
     [form |-> "PnD", n |-> Num(1)],
     [form |-> "PnDTmH", n |-> None]}

(* validTime: absent, with a start fromisoformat rejects, or well-formed *)
ValidTimes ==
    {None, [start |-> None, duration |-> [form |-> "PTnH", n |-> Num(6)]]}
    \cup [start : ForecastStarts, duration : DurationTexts]

QpfValues == {None, Num(3), NotANumber}

QpfItems == [validTime : ValidTimes, value : QpfValues]

InitForecast ==
    /\ point_answer \in {"RequestException", "InvalidJSON", "incomplete", "ok"}
    /\ forecast_answer \in {"RequestException", "InvalidJSON", "payload"}
    /\ qpf_item = None /\ n_items = 0
    /\ prev_entries = <<>> /\ qpf_entries = <<>>
    /\ rain_entry = None
    /\ thresholds = CHOOSE t \in RunThresholds : Complete(t)
    /\ stage_ft = None /\ flood_stage_ft = None /\ rain_mm_72h = None /\ assessment = None
    /\ IdleRain /\ IdleUsgs /\ IdleRun

(* get_point_metadata raises: the except branch records the error entry *)
FailPoint ==
    /\ rain_entry = None
    /\ point_answer # "ok"
    /\ rain_entry' = ErrorEntry("g", get_point_metadata([kind |-> point_answer]))
    /\ UNCHANGED <<point_answer, forecast_answer, qpf_item, n_items, prev_entries, qpf_entries>>
    /\ UNCHANGED <<clsVars, rainVars, usgsVars, runVars>>

(* fetch_nws_forecast raises on the request or on the body *)
FailForecast ==
    /\ rain_entry = None
    /\ point_answer = "ok"
    /\ forecast_answer # "payload"
    /\ rain_entry' = ErrorEntry("g", fetch_nws_forecast([kind |-> forecast_answer]))
    /\ UNCHANGED <<point_answer, forecast_answer, qpf_item, n_items, prev_entries, qpf_entries>>
    /\ UNCHANGED <<clsVars, rainVars, usgsVars, runVars>>

(* fetch_nws_forecast: one iteration of the loop over the qpf values *)
ReadItem ==
    \E it \in QpfItems :
        /\ rain_entry = None
        /\ point_answer = "ok"
        /\ forecast_answer = "payload"
        /\ n_items < MaxItems
        /\ qpf_item' = it
        /\ n_items' = n_items + 1
        /\ prev_entries' = qpf_entries
        /\ LET got == QpfStep(qpf_entries, it) IN
           IF IsRaised(got)
           THEN qpf_entries' = qpf_entries /\ rain_entry' = ErrorEntry("g", got)
           ELSE qpf_entries' = got.qpf /\ rain_entry' = rain_entry
        /\ UNCHANGED <<point_answer, forecast_answer>>
        /\ UNCHANGED <<clsVars, rainVars, usgsVars, runVars>>

(* fetch_nws_forecast returns; compute_72h_rain_mm, on the window that     *)
(* starts at the clock reading of the call; results[gauge_id]              *)
ReturnForecast ==
    /\ rain_entry = None
    /\ point_answer = "ok"
    /\ forecast_answer = "payload"
    /\ \E now \in ClockReadings :
          /\ window_start' = now
          /\ rain_entry' = [gauge_id    |-> "g",
                            lat         |-> Num(38),
                            lon         |-> Num(-121),
                            rain_72h_mm |-> compute_72h_rain_mm(qpf_entries, now)]
    /\ UNCHANGED <<point_answer, forecast_answer, qpf_item, n_items, prev_entries, qpf_entries>>
    /\ UNCHANGED <<entry, n_seen, total_mm, added, prorated_sum, overlap_value_sum>>
    /\ UNCHANGED <<clsVars, usgsVars, runVars>>

(* classify_all on the gauge, whose stage entry holds no stage value *)
ClassifyForecast ==
    /\ rain_entry # None
    /\ assessment = None
    /\ rain_mm_72h' = Get(rain_entry, "rain_72h_mm")
    /\ assessment' = classify_gauge("g", None, None, rain_mm_72h', thresholds)
    /\ UNCHANGED <<thresholds, stage_ft, flood_stage_ft>>
    /\ UNCHANGED <<fcVars, rainVars, usgsVars, runVars>>

NextForecast == FailPoint \/ FailForecast \/ ReadItem \/ ReturnForecast \/ ClassifyForecast

SpecForecast == InitForecast /\ [][NextForecast]_vars

-----------------------------------------------------------------------------
(* Claims about one forecast, checked under SpecForecast *)

(* The loop drops the value: no validity interval, no precipitation value, *)
(* or a validity interval that cannot be parsed                            *)
Dropped(it) ==
    \/ it.validTime = None
    \/ it.value = None
    \/ IsRaised(_parse_valid_time(it.validTime))

(* An entry that is no usable period in the words of C13: it lacks its     *)
(* validity interval or its value, or it cannot be parsed, be it the       *)
(* validity interval or the amount that does not parse                     *)
Unusable(it) ==
    \/ it.validTime = None
    \/ it.value = None
    \/ IsRaised(_parse_valid_time(it.validTime))
    \/ it.value = NotANumber

(* The request for the forecast was answered with a JSON body *)
FetchSucceeded == point_answer = "ok" /\ forecast_answer = "payload"

(* No listed value was kept, and the last one read, the only one that can  *)
(* have ended the loop, was unusable                                       *)
NoUsablePeriod ==
    /\ FetchSucceeded
    /\ qpf_entries = <<>>
    /\ n_items > 0 => Unusable(qpf_item)

(* The same with every listed value dropped by the loop *)
EveryValueDropped ==
    /\ FetchSucceeded
    /\ qpf_entries = <<>>
    /\ n_items > 0 => Dropped(qpf_item)

(* C13 as claimed: when the forecast fetch succeeds but yields no usable   *)
(* period (no value listed, or every value lacks its validity interval or  *)
(* its amount or cannot be parsed), the gauge's rainfall entry has a       *)
(* 72-hour total of exactly 0 and no error marker; a failed fetch gives an *)
(* error marker and no total; and classification proceeds on the total 0   *)
(* as a known rainfall.                                                    *)
C13_NoUsablePeriodIsZeroTotal ==
    rain_entry # None =>
        /\ NoUsablePeriod =>
              /\ ~HasErrorMarker(rain_entry)
              /\ rain_entry.rain_72h_mm = Zero
              /\ assessment # None =>
                    /\ ~IsRaised(assessment)
                    /\ assessment.inputs.rain_mm_72h = Zero
                    /\ assessment.rain_risk # "UNKNOWN"
        /\ ~FetchSucceeded =>
              /\ HasErrorMarker(rain_entry)
              /\ ~HasKey(rain_entry, "rain_72h_mm")
              /\ assessment # None => assessment.rain_risk = "UNKNOWN"

(* What holds of C13: the same when every listed value is one the loop     *)
(* drops; and a value whose validity interval parses and whose amount      *)
(* float() rejects gives the gauge an error entry without a total.         *)
C13_DroppedValuesGiveZeroTotal ==
    rain_entry # None =>
        /\ EveryValueDropped =>
              /\ ~HasErrorMarker(rain_entry)
              /\ rain_entry.rain_72h_mm = Zero
              /\ assessment # None =>
                    /\ ~IsRaised(assessment)
                    /\ assessment.inputs.rain_mm_72h = Zero
                    /\ assessment.rain_risk # "UNKNOWN"
        /\ ~FetchSucceeded =>
              /\ HasErrorMarker(rain_entry)
              /\ ~HasKey(rain_entry, "rain_72h_mm")
              /\ assessment # None => assessment.rain_risk = "UNKNOWN"
        /\ (FetchSucceeded /\ n_items > 0 /\ ~Dropped(qpf_item) /\ qpf_item.value = NotANumber) =>
              /\ HasErrorMarker(rain_entry)
              /\ ~HasKey(rain_entry, "rain_72h_mm")

C13_DroppedWitness ==
    /\ EveryValueDropped /\ n_items = 2
    /\ qpf_item.validTime # None /\ qpf_item.value = Num(3)
    /\ IsRaised(_parse_valid_time(qpf_item.validTime))
    /\ rain_entry # None /\ rain_entry.rain_72h_mm = Zero
    /\ assessment # None /\ assessment.rain_risk = "LOW"

(* The value read in this iteration gives its duration in another form     *)
(* than a single hours count 'PT<n>H' or a single minutes count 'PT<n>M'   *)
OtherDurationForm ==
    /\ n_items > 0
    /\ qpf_item.validTime # None
    /\ qpf_item.validTime.duration.form \notin {"PTnH", "PTnM"}

(* C16 as claimed: a forecast period whose duration is encoded in any      *)
(* other form than 'PT<n>H' or 'PT<n>M' never adds to the 72-hour total:   *)
(* it is dropped when its parsing fails or kept as a zero-length period,   *)
(* which the accumulator skips, and it does not give the gauge an error    *)
(* entry.                                                                  *)
C16_OtherDurationFormsAddNothing ==
    OtherDurationForm =>
        /\ \/ qpf_entries = prev_entries
           \/ /\ Len(qpf_entries) = Len(prev_entries) + 1
              /\ SubSeq(qpf_entries, 1, Len(prev_entries)) = prev_entries
              /\ qpf_entries[Len(qpf_entries)].duration = Zero
        /\ \A now \in ClockReadings :
              compute_72h_rain_mm(qpf_entries, now) = compute_72h_rain_mm(prev_entries, now)
        /\ (FetchSucceeded /\ rain_entry # None) =>
              /\ ~HasErrorMarker(rain_entry)
              /\ rain_entry.rain_72h_mm = compute_72h_rain_mm(prev_entries, window_start)

(* What holds of C16: such a period never adds to the total, and it gives  *)
(* the gauge an error entry exactly when its validity interval parses, to  *)
(* a zero-length period, and its amount is one float() rejects.            *)
C16_OtherDurationFormsNeverAdd ==
    OtherDurationForm =>
        /\ \/ qpf_entries = prev_entries
           \/ /\ Len(qpf_entries) = Len(prev_entries) + 1
              /\ SubSeq(qpf_entries, 1, Len(prev_entries)) = prev_entries
              /\ qpf_entries[Len(qpf_entries)].duration = Zero
        /\ \A now \in ClockReadings :
              compute_72h_rain_mm(qpf_entries, now) = compute_72h_rain_mm(prev_entries, now)
        /\ (FetchSucceeded /\ rain_entry # None) =>
              IF ~Dropped(qpf_item) /\ qpf_item.value = NotANumber
              THEN HasErrorMarker(rain_entry) /\ ~HasKey(rain_entry, "rain_72h_mm")
              ELSE /\ ~HasErrorMarker(rain_entry)
                   /\ rain_entry.rain_72h_mm = compute_72h_rain_mm(prev_entries, window_start)

C16_NeverAddWitness ==
    /\ OtherDurationForm /\ n_items = 2
    /\ qpf_item.validTime.start = Num(1)
    /\ qpf_item.validTime.duration.form = "PnD"
    /\ qpf_item.value = Num(3)
    /\ Len(prev_entries) = 1 /\ Len(qpf_entries) = 2
    /\ window_start = Num(2)
    /\ rain_entry # None /\ rain_entry.rain_72h_mm = Frac(5, 2)

=============================================================================
